---- MODULE Spec2Model ----
(***************************************************************************)
(* TidyMon: the tray application's scan scheduler (tray.py) together with  *)
(* the rule engine it drives (rules.py), the notifier (notifier.py) and    *)
(* the configuration loader (monitor.py).                                  *)
(*                                                                         *)
(* Two threads are modelled: the worker thread running                     *)
(* TrayApp._monitor_loop and the main thread running the pystray event     *)
(* loop, on which the menu callbacks (_on_scan_now, _on_quit) execute.     *)
(* The file system (config.yaml, the watched folders, the Chrome bookmark  *)
(* store) and the toast service are inputs drawn at the moment the code    *)
(* reads or calls them.                                                    *)
(***************************************************************************)
EXTENDS Integers, Sequences, FiniteSets, TLC

(***************************************************************************)
(* Bounds of the model.                                                    *)
(***************************************************************************)
\* Number of scan cycles the worker may start.
MaxCycles == 3
\* Saturation of the counter of 'scan now' requests issued since the last clear.
MaxRequests == 2
\* Largest score the level functions are applied to.
MaxScore == 50
\* Largest threshold of a folder rule that is evaluated on its own.
MaxThreshold == 3
\* Largest number of children of the bookmark bar in a generated store.
MaxChildren == 2

(***************************************************************************)
(* Small helpers.                                                          *)
(***************************************************************************)
\* An Optional value is a sequence of length 0 (None) or 1.
None == <<>>

Some(x) == <<x>>

\* dict.get(key, default) on a dict modelled as a function over its keys.
Get(d, key, default) == IF key \in DOMAIN d THEN d[key] ELSE default

(***************************************************************************)
(* rules.py: the report model and the folder rules.                        *)
(***************************************************************************)
\* FolderReport.level: a step function of the score.
Level(score) ==
    IF score >= 3 THEN "critical"
    ELSE IF score >= 2 THEN "warning"
    ELSE IF score >= 1 THEN "caution"
    ELSE "clean"

\* A level that tests the score for equality where the property tests >=.
BookmarkLevel_by_equality(score) ==
    IF score = 3 THEN "critical"
    ELSE IF score = 2 THEN "warning"
    ELSE IF score = 1 THEN "caution"
    ELSE "clean"

\* BookmarkReport.level: the same text as FolderReport.level.
BookmarkLevel(score) ==
    IF score >= 3 THEN "critical"
    ELSE IF score >= 2 THEN "warning"
    ELSE IF score >= 1 THEN "caution"
    ELSE "clean"

\* A rule that records its reason and leaves the score alone.
trigger_without_score(report, reason) ==
    [report EXCEPT !.reasons = Append(@, reason)]

\* A rule that fires: report.score += 1 and report.reasons.append(reason).
\* A reason is <<rule, actual, threshold>>, the values its text is made of.
trigger(report, reason) ==
    [report EXCEPT !.score = @ + 1, !.reasons = Append(@, reason)]

\* FolderReport(path=folder_path): the dataclass defaults.
FolderReport(path) ==
    [path |-> path, total_files |-> 0, extension_count |-> 0,
     stale_file_count |-> 0, score |-> 0, reasons |-> <<>>]

\* str.lower() on the suffixes that occur in the modelled folders.
Lower(suffix) ==
    CASE suffix = ".TXT" -> ".txt"
      [] suffix = ".PDF" -> ".pdf"
      [] OTHER -> suffix

\* Seconds per day, the factor of stale_days in evaluate_folder.
SecondsPerDay == 86400

\* evaluate_folder: dir is the directory as found on disk at the call,
\* [exists |-> FALSE] or [exists |-> TRUE, entries |-> <<entry, ...>>] with
\* entry = [is_file, suffix, st_mtime]; now is the value of time.time().
evaluate_folder(folder_path, dir, max_files, max_extensions, max_stale_files, stale_days, now) ==
    IF ~dir.exists THEN FolderReport(folder_path)
    ELSE
      LET entries == dir.entries
          files == {i \in DOMAIN entries : entries[i].is_file}
          total_files == Cardinality(files)
          r1 == [FolderReport(folder_path) EXCEPT !.total_files = total_files]
          r2 == IF total_files > max_files
                THEN trigger(r1, <<"files", total_files, max_files>>)
                ELSE r1
          extensions == {Lower(entries[i].suffix) : i \in {j \in files : entries[j].suffix # ""}}
          extension_count == Cardinality(extensions)
          r3 == [r2 EXCEPT !.extension_count = extension_count]
          r4 == IF extension_count > max_extensions
                THEN trigger(r3, <<"extensions", extension_count, max_extensions>>)
                ELSE r3
          stale_threshold == now - (stale_days * SecondsPerDay)
          stale_files == {i \in files : entries[i].st_mtime < stale_threshold}
          stale_file_count == Cardinality(stale_files)
          r5 == [r4 EXCEPT !.stale_file_count = stale_file_count]
          r6 == IF stale_file_count > max_stale_files
                THEN trigger(r5, <<"stale", stale_file_count, max_stale_files>>)
                ELSE r5
      IN r6

(***************************************************************************)
(* rules.py: the bookmark rules.                                           *)
(***************************************************************************)
\* BookmarkReport(): the dataclass defaults.
BookmarkReport ==
    [total_bookmarks |-> 0, unsorted_count |-> 0, duplicate_count |-> 0,
     unused_count |-> 0, score |-> 0, reasons |-> <<>>]

RECURSIVE collect_urls(_)
RECURSIVE collect_children(_)
\* _collect_urls: the URL nodes of the tree under node, in depth-first order.
\* A node is a dict modelled as a function over the keys it has.
collect_urls(node) ==
    (IF Get(node, "type", "") = "url" THEN <<node>> ELSE <<>>)
        \o collect_children(Get(node, "children", <<>>))

\* The loop of _collect_urls over node["children"].
collect_children(children) ==
    IF children = <<>> THEN <<>>
    ELSE collect_urls(Head(children)) \o collect_children(Tail(children))

\* A collection that walks the bookmark bar and no other root.
collect_roots_bar_only(roots) ==
    IF roots = <<>> \/ ~Head(roots).is_dict THEN <<>>
    ELSE collect_urls(Head(roots).node)

RECURSIVE collect_roots(_)
\* The loop of evaluate_bookmarks over data["roots"].values(); a root is
\* [name, is_dict, node], and values that are not dicts are skipped.
collect_roots(roots) ==
    IF roots = <<>> THEN <<>>
    ELSE (IF Head(roots).is_dict THEN collect_urls(Head(roots).node) ELSE <<>>)
            \o collect_roots(Tail(roots))

\* data.get("roots", {}).get("bookmark_bar", {}): the node of the root named
\* bookmark_bar, or the empty dict.
bookmark_bar_of(roots) ==
    LET hits == {i \in DOMAIN roots : roots[i].name = "bookmark_bar"}
    IN IF hits = {} THEN [k \in {} |-> 0] ELSE roots[CHOOSE i \in hits : TRUE].node

\* An evaluation without the early return on an empty URL universe.
empty_universe_unchecked(total) == FALSE

\* if report.total_bookmarks == 0: return report.
empty_universe(total) == total = 0

\* evaluate_bookmarks: store is the bookmark file as found on disk at the call:
\* [exists, parses, roots]. The result is [raised, report]: raised is TRUE when
\* json.load or item["url"] raises, or the division by total_bookmarks divides
\* by zero, and the exception leaves the function.
evaluate_bookmarks(store, max_unsorted, max_duplicates, max_unused_percent) ==
    IF ~store.exists THEN [raised |-> FALSE, report |-> BookmarkReport]
    ELSE IF ~store.parses THEN [raised |-> TRUE, report |-> BookmarkReport]
    ELSE
      LET all_urls == collect_roots(store.roots)
          total == Len(all_urls)
          r1 == [BookmarkReport EXCEPT !.total_bookmarks = total]
          bar == bookmark_bar_of(store.roots)
          barkids == Get(bar, "children", <<>>)
          unsorted_count ==
              Cardinality({i \in DOMAIN barkids : Get(barkids[i], "type", "") = "url"})
          r2 == [r1 EXCEPT !.unsorted_count = unsorted_count]
          r3 == IF unsorted_count > max_unsorted
                THEN trigger(r2, <<"unsorted", unsorted_count, max_unsorted>>)
                ELSE r2
          key_error == \E i \in DOMAIN all_urls : "url" \notin DOMAIN all_urls[i]
          url_counts == [u \in {all_urls[i].url : i \in DOMAIN all_urls} |->
                            Cardinality({i \in DOMAIN all_urls : all_urls[i].url = u})]
          duplicates == {u \in DOMAIN url_counts : url_counts[u] > 1}
          duplicate_count == Cardinality(duplicates)
          r4 == [r3 EXCEPT !.duplicate_count = duplicate_count]
          r5 == IF duplicate_count > max_duplicates
                THEN trigger(r4, <<"duplicates", duplicate_count, max_duplicates>>)
                ELSE r4
          unused == {i \in DOMAIN all_urls : Get(all_urls[i], "date_last_used", "0") = "0"}
          unused_count == Cardinality(unused)
          r6 == [r5 EXCEPT !.unused_count = unused_count]
          \* (unused_count / total) * 100 > max_unused_percent. For the totals
          \* and the thresholds of the modelled inputs the comparison of the
          \* floats agrees with the exact one below.
          r7 == IF unused_count * 100 > max_unused_percent * total
                THEN trigger(r6, <<"unused", unused_count, max_unused_percent>>)
                ELSE r6
      IN IF empty_universe(total) THEN [raised |-> FALSE, report |-> r1]
         ELSE IF key_error THEN [raised |-> TRUE, report |-> r3]
         ELSE IF total = 0 THEN [raised |-> TRUE, report |-> r6]
         ELSE [raised |-> FALSE, report |-> r7]

(***************************************************************************)
(* The inputs: what the code finds on disk when it reads.                  *)
(***************************************************************************)
\* time.time() at an evaluation.
Now == 30 * SecondsPerDay

FreshFile(suffix) == [is_file |-> TRUE, suffix |-> suffix, st_mtime |-> Now - SecondsPerDay]

OldFile(suffix) == [is_file |-> TRUE, suffix |-> suffix, st_mtime |-> Now - 10 * SecondsPerDay]

SubDir == [is_file |-> FALSE, suffix |-> "", st_mtime |-> Now - 10 * SecondsPerDay]

DirMissing == [exists |-> FALSE]

DirTidy == [exists |-> TRUE, entries |-> <<FreshFile(".txt"), SubDir>>]

DirMessy == [exists |-> TRUE, entries |-> <<OldFile(".txt"), OldFile(".PDF"), FreshFile(""), SubDir>>]

\* The states a watched folder can be found in.
Dirs == {DirMissing, DirTidy, DirMessy}

\* The documents yaml.safe_load can return from config.yaml, with the paths
\* resolved. Keys left out of a document are left out of the function.
ConfigA ==
    [check_interval_minutes |-> 1,
     folders |-> <<[path |-> "Desktop", max_files |-> 1, max_extensions |-> 1,
                    max_stale_files |-> 1, stale_days |-> 7]>>,
     bookmarks |-> [max_unsorted |-> 1, max_duplicates |-> 0, max_unused_percent |-> 50]]

ConfigB ==
    [folders |-> <<[path |-> "Desktop", max_files |-> 1, max_extensions |-> 1,
                    max_stale_files |-> 1, stale_days |-> 7],
                   [path |-> "Downloads", max_files |-> 2]>>,
     bookmarks |-> [enabled |-> FALSE]]

\* A document with no folder to watch and no bookmarks section.
ConfigC == [check_interval_minutes |-> 1, folders |-> <<>>]

ConfigDocs == {ConfigA, ConfigB, ConfigC}

\* config.yaml as found on disk: unreadable (missing, not YAML, an unknown
\* shell: token) or holding one of the documents.
ConfigFiles == {[loads |-> FALSE]} \cup {[loads |-> TRUE, doc |-> d] : d \in ConfigDocs}

UrlNode(url, used) == [type |-> "url", url |-> url, date_last_used |-> used]

NeverUsedNode(url) == [type |-> "url", url |-> url]

FolderNode(children) == [type |-> "folder", children |-> children]

StoreAbsent == [exists |-> FALSE]

StoreUnparsable == [exists |-> TRUE, parses |-> FALSE]

StoreMissingUrl ==
    [exists |-> TRUE, parses |-> TRUE,
     roots |-> <<[name |-> "bookmark_bar", is_dict |-> TRUE,
                  node |-> FolderNode(<<[type |-> "url"]>>)]>>]

StoreTidy ==
    [exists |-> TRUE, parses |-> TRUE,
     roots |-> <<[name |-> "bookmark_bar", is_dict |-> TRUE,
                  node |-> FolderNode(<<UrlNode("a", "13")>>)]>>]

StoreMessy ==
    [exists |-> TRUE, parses |-> TRUE,
     roots |-> <<[name |-> "bookmark_bar", is_dict |-> TRUE,
                  node |-> FolderNode(<<NeverUsedNode("a"), UrlNode("a", "0"),
                                        FolderNode(<<UrlNode("b", "13")>>)>>)],
                 [name |-> "other", is_dict |-> TRUE,
                  node |-> FolderNode(<<UrlNode("b", "13")>>)],
                 [name |-> "sync_transaction_version", is_dict |-> FALSE,
                  node |-> FolderNode(<<>>)]>>]

\* The states the Chrome bookmark file can be found in.
BookmarkStores == {StoreAbsent, StoreUnparsable, StoreMissingUrl, StoreTidy, StoreMessy}

(***************************************************************************)
(* monitor.py                                                              *)
(***************************************************************************)
\* load_config: [raised, config]. open, yaml.safe_load and resolve_path raise
\* out of load_config; nothing in it catches.
load_config(file) ==
    IF file.loads THEN [raised |-> FALSE, config |-> file.doc]
    ELSE [raised |-> TRUE, config |-> [k \in {} |-> 0]]

(***************************************************************************)
(* notifier.py                                                             *)
(***************************************************************************)
\* send_notification / send_bookmark_notification: the toasts shown after the
\* call, given those shown before. The call returns early for a clean report.
send_notification(shown, kind, report) ==
    LET level == IF kind = "bookmarks" THEN BookmarkLevel(report.score)
                 ELSE Level(report.score)
    IN IF level = "clean" THEN shown
       ELSE Append(shown, [kind |-> kind, level |-> level])

(***************************************************************************)
(* tray.py: the presentation.                                              *)
(***************************************************************************)
\* LEVEL_PRIORITY
LEVEL_PRIORITY == [clean |-> 0, caution |-> 1, warning |-> 2, critical |-> 3]

\* A worst level that leaves the bookmark report out.
worst_level_folders_only(rs, bm) ==
    IF rs = <<>> THEN "clean"
    ELSE LET levels == [i \in DOMAIN rs |-> Level(rs[i].score)]
         IN levels[CHOOSE i \in DOMAIN levels :
                     \A j \in DOMAIN levels :
                        LEVEL_PRIORITY[levels[j]] <= LEVEL_PRIORITY[levels[i]]]

\* TrayApp._worst_level over self.reports and self.bookmark_report.
worst_level(rs, bm) ==
    LET levels == [i \in DOMAIN rs |-> Level(rs[i].score)]
                    \o (IF bm # None THEN <<BookmarkLevel(bm[1].score)>> ELSE <<>>)
    IN IF levels = <<>> THEN "clean"
       ELSE levels[CHOOSE i \in DOMAIN levels :
                     /\ \A j \in DOMAIN levels :
                          LEVEL_PRIORITY[levels[j]] <= LEVEL_PRIORITY[levels[i]]
                     /\ \A j \in 1..(i - 1) :
                          LEVEL_PRIORITY[levels[j]] < LEVEL_PRIORITY[levels[i]]]

\* TrayApp._build_menu: the items that depend on the reports.
build_menu(rs, bm) ==
    [folders |-> [i \in DOMAIN rs |-> <<rs[i].path, Level(rs[i].score)>>],
     waiting |-> (rs = <<>>),
     bookmark |-> IF bm # None THEN Some(BookmarkLevel(bm[1].score)) ELSE None]

\* A wait that the flag does not end: a sleep of the whole timeout.
wait_returns_on_timeout_only(flag, remaining) == remaining <= 0

\* threading.Event.wait(timeout): returns once the flag is set or the timeout
\* has run out.
wait_returns(flag, remaining) == flag \/ remaining <= 0

(***************************************************************************)
(* The state.                                                              *)
(***************************************************************************)
VARIABLES
    \* TrayApp, the fields shared by the two threads
    config,           \* self.config
    reports,          \* self.reports
    bookmark_report,  \* self.bookmark_report, None or Some(report)
    stop_event,       \* self._stop_event's flag
    scan_event,       \* self._scan_event's flag
    icon,             \* self.icon: what the tray shows
    \* the worker thread (TrayApp._monitor_loop)
    pc,               \* its position
    scan_config,      \* the local config of _run_scan
    store_found,      \* what BOOKMARKS_PATH.exists() returned in this cycle
    scan_reports,     \* the local list reports of _run_scan
    idx,              \* the index of the notification loop
    remaining,        \* seconds left of the timeout of the wait in progress
    failure,          \* the exception that ended the thread, or "none"
    \* the main thread (pystray's loop and the menu callbacks)
    ui,               \* its position
    terminated,       \* the process has exited
    \* the toast service
    toasts,           \* the toasts shown in the current cycle
    \* observation of the run
    cycle,            \* number of cycles started
    reports_cycle,    \* the cycle that wrote self.reports (0: the constructor)
    bookmark_cycle,   \* the cycle that wrote self.bookmark_report
    stop_pc,          \* the worker's position when the stop flag was set
    cycles_after_stop,\* calls of _run_scan made with the stop flag already set
    pending_wake,     \* a 'scan now' arrived while the worker was in the wait
    requests,         \* 'scan now' requests since the last clear (saturating)
    scan_requests,    \* those of them issued while a cycle was running
    unserved,         \* a 'scan now' was issued and _run_scan not called since
    \* the evaluation of the rules on their own
    input,            \* the arguments of a call of the rule engine
    result            \* what the call returned

vars == <<config, reports, bookmark_report, stop_event, scan_event, icon,
          pc, scan_reports, idx, remaining, failure, ui, terminated, toasts,
          cycle, reports_cycle, bookmark_cycle, stop_pc, cycles_after_stop,
          pending_wake, requests, scan_requests, unserved, scan_config,
          store_found, input, result>>

shared == <<config, reports, bookmark_report, icon>>

worker == <<pc, scan_reports, idx, remaining, failure>>

locals == <<scan_config, store_found>>

scheduler == <<config, reports, bookmark_report, icon, stop_event, scan_event,
               pc, scan_reports, idx, remaining, failure, scan_config, store_found,
               ui, terminated, toasts, cycle, reports_cycle, bookmark_cycle,
               stop_pc, cycles_after_stop, pending_wake, requests, scan_requests,
               unserved>>

rules == <<input, result>>

events == <<stop_event, scan_event>>

history == <<cycle, reports_cycle, bookmark_cycle, stop_pc, cycles_after_stop,
             pending_wake, requests, scan_requests, unserved>>

\* The positions of the worker inside _run_scan.
ScanningPcs == {"load", "evaluate", "assign", "notify", "bookmarks", "bookmark_notify", "update_icon"}

\* The positions of the worker between two cycles.
IdlePcs == {"interval", "wait", "clear", "test"}

\* The seconds one Tick of the clock advances.
TickSeconds == 60

(***************************************************************************)
(* TrayApp.__init__ has run (load_config succeeded, or there is no         *)
(* TrayApp), and TrayApp.run has built the icon and started the worker.    *)
(***************************************************************************)
SchedulerInit ==
    /\ config \in ConfigDocs
    /\ scan_config = config
    /\ store_found = "unchecked"
    /\ reports = <<>>
    /\ bookmark_report = None
    /\ stop_event = FALSE
    /\ scan_event = FALSE
    /\ icon = [icon |-> "clean", title |-> "starting", menu |-> build_menu(<<>>, None)]
    /\ pc = "test"
    /\ scan_reports = <<>>
    /\ idx = 1
    /\ remaining = 0
    /\ failure = "none"
    /\ ui = "menu"
    /\ terminated = FALSE
    /\ toasts = <<>>
    /\ cycle = 0
    /\ reports_cycle = 0
    /\ bookmark_cycle = 0
    /\ stop_pc = "none"
    /\ cycles_after_stop = 0
    /\ pending_wake = FALSE
    /\ requests = 0
    /\ scan_requests = 0
    /\ unserved = FALSE

\* The rule engine is not called on its own: the scheduler calls it.
Init ==
    /\ SchedulerInit
    /\ input = None
    /\ result = None

(***************************************************************************)
(* The worker thread.                                                      *)
(***************************************************************************)
\* A loop that does not look at the stop flag.
loop_ignores_stop(stop) == TRUE

\* while not self._stop_event.is_set(): the loop goes on.
loop_continues(stop) == ~stop

\* _monitor_loop, the test of the while loop.
monitor_loop_test ==
    /\ ~terminated
    /\ UNCHANGED rules
    /\ UNCHANGED unserved
    /\ UNCHANGED locals
    /\ pc = "test"
    /\ IF loop_continues(stop_event)
       THEN /\ cycle < MaxCycles
            /\ pc' = "load"
            /\ cycle' = cycle + 1
       ELSE /\ pc' = "done"
            /\ UNCHANGED cycle
    /\ pending_wake' = FALSE
    /\ UNCHANGED <<shared, events, scan_reports, idx, remaining, failure, ui,
                   terminated, toasts, reports_cycle, bookmark_cycle, stop_pc,
                   cycles_after_stop, requests, scan_requests>>

\* A scan that does not store the configuration it has loaded.
store_config_skipped(old, new) == old

\* self.config = config: the field afterwards.
store_config(old, new) == new

\* _run_scan: config = load_config(); self.config = config; reports = [].
\* An exception of load_config leaves _run_scan and _monitor_loop: the thread ends.
run_scan_load ==
    /\ ~terminated
    /\ UNCHANGED rules
    /\ pc = "load"
    /\ \E file \in ConfigFiles :
         LET r == load_config(file)
         IN IF r.raised
            THEN /\ pc' = "raised"
                 /\ failure' = "config"
                 /\ UNCHANGED <<config, scan_reports, toasts, locals>>
            ELSE /\ scan_config' = r.config
                 /\ config' = store_config(config, r.config)
                 /\ store_found' = "unchecked"
                 /\ scan_reports' = <<>>
                 /\ toasts' = <<>>
                 /\ pc' = "evaluate"
                 /\ UNCHANGED failure
    \* no wait is in progress: the timeout of the last one is gone
    /\ remaining' = 0
    \* the loop has tested the stop flag before the call, not at the call
    /\ cycles_after_stop' = cycles_after_stop + (IF stop_event THEN 1 ELSE 0)
    /\ unserved' = FALSE
    /\ UNCHANGED <<reports, bookmark_report, icon, events, idx, ui, terminated, cycle,
                   reports_cycle, bookmark_cycle, stop_pc, pending_wake, requests,
                   scan_requests>>

\* _run_scan: one iteration of the loop over config["folders"].
run_scan_evaluate ==
    /\ ~terminated
    /\ UNCHANGED rules
    /\ pc = "evaluate"
    /\ UNCHANGED locals
    /\ Len(scan_reports) < Len(scan_config["folders"])
    /\ \E dir \in Dirs :
         LET folder_cfg == scan_config["folders"][Len(scan_reports) + 1]
             report == evaluate_folder(folder_cfg["path"], dir,
                                       Get(folder_cfg, "max_files", 20),
                                       Get(folder_cfg, "max_extensions", 8),
                                       Get(folder_cfg, "max_stale_files", 10),
                                       Get(folder_cfg, "stale_days", 7),
                                       Now)
         IN scan_reports' = Append(scan_reports, report)
    /\ UNCHANGED <<shared, events, pc, idx, remaining, failure, ui, terminated,
                   toasts, history>>

\* _run_scan: self.reports = reports, after the last folder.
run_scan_assign ==
    /\ ~terminated
    /\ UNCHANGED rules
    /\ UNCHANGED unserved
    /\ pc = "evaluate"
    /\ UNCHANGED locals
    /\ Len(scan_reports) = Len(scan_config["folders"])
    /\ reports' = scan_reports
    /\ reports_cycle' = cycle
    /\ idx' = 1
    /\ pc' = "notify"
    /\ UNCHANGED <<config, bookmark_report, icon, events, scan_reports, remaining,
                   failure, ui, terminated, toasts, cycle, bookmark_cycle, stop_pc,
                   cycles_after_stop, pending_wake, requests, scan_requests>>

\* _run_scan: one iteration of the loop that sends the notifications, or its
\* end. toast.show() either shows the toast or raises; nothing catches it.
run_scan_notify ==
    /\ ~terminated
    /\ UNCHANGED rules
    /\ UNCHANGED locals
    /\ pc = "notify"
    /\ IF idx <= Len(scan_reports)
       THEN IF Level(scan_reports[idx].score) # "clean"
            THEN \/ /\ toasts' = send_notification(toasts, "folder", scan_reports[idx])
                    /\ idx' = idx + 1
                    /\ UNCHANGED <<pc, failure>>
                 \/ /\ pc' = "raised"
                    /\ failure' = "notification"
                    /\ UNCHANGED <<toasts, idx>>
            ELSE /\ idx' = idx + 1
                 /\ UNCHANGED <<pc, failure, toasts>>
       ELSE /\ pc' = "bookmarks"
            /\ UNCHANGED <<idx, failure, toasts>>
    /\ UNCHANGED <<shared, events, scan_reports, remaining, ui, terminated, history>>

\* A check that leaves the existence of the store to evaluate_bookmarks.
bookmarks_checked_when_enabled(enabled, exists) == enabled

\* if bm_cfg.get("enabled", True) and BOOKMARKS_PATH.exists().
bookmarks_checked(enabled, exists) == enabled /\ exists

\* _run_scan: the bookmark check. evaluate_bookmarks raises on a store that
\* does not parse or lacks a field; nothing catches it. exists() is called
\* only when the check is enabled.
run_scan_bookmarks ==
    /\ ~terminated
    /\ UNCHANGED rules
    /\ UNCHANGED unserved
    /\ pc = "bookmarks"
    /\ \E store \in BookmarkStores :
         LET bm_cfg == Get(scan_config, "bookmarks", [k \in {} |-> 0])
             enabled == Get(bm_cfg, "enabled", TRUE)
         IN /\ store_found' = IF ~enabled THEN "unchecked"
                               ELSE IF store.exists THEN "exists" ELSE "absent"
            /\ IF bookmarks_checked(enabled, store.exists)
                 THEN LET r == evaluate_bookmarks(store,
                                                  Get(bm_cfg, "max_unsorted", 10),
                                                  Get(bm_cfg, "max_duplicates", 5),
                                                  Get(bm_cfg, "max_unused_percent", 50))
                      IN IF r.raised
                         THEN /\ pc' = "raised"
                              /\ failure' = "bookmarks"
                              /\ UNCHANGED <<bookmark_report, bookmark_cycle>>
                         ELSE /\ bookmark_report' = Some(r.report)
                              /\ bookmark_cycle' = cycle
                              /\ pc' = "bookmark_notify"
                              /\ UNCHANGED failure
                 ELSE /\ bookmark_report' = None
                      /\ bookmark_cycle' = cycle
                      /\ pc' = "update_icon"
                      /\ UNCHANGED failure
    /\ UNCHANGED <<config, reports, icon, events, scan_reports, idx, remaining, ui,
                   terminated, toasts, cycle, reports_cycle, stop_pc,
                   cycles_after_stop, pending_wake, requests, scan_requests,
                   scan_config>>

\* _run_scan: the notification of the bookmark report.
run_scan_bookmark_notify ==
    /\ ~terminated
    /\ UNCHANGED rules
    /\ UNCHANGED locals
    /\ pc = "bookmark_notify"
    /\ IF BookmarkLevel(bookmark_report[1].score) # "clean"
       THEN \/ /\ toasts' = send_notification(toasts, "bookmarks", bookmark_report[1])
               /\ pc' = "update_icon"
               /\ UNCHANGED failure
            \/ /\ pc' = "raised"
               /\ failure' = "notification"
               /\ UNCHANGED toasts
       ELSE /\ pc' = "update_icon"
            /\ UNCHANGED <<failure, toasts>>
    /\ UNCHANGED <<shared, events, scan_reports, idx, remaining, ui, terminated, history>>

\* An update that returns before it has set anything.
updated_icon_skipped(old, rs, bm) == old

\* _update_icon: self.icon afterwards; icon, title and menu are set from the
\* worst level and the reports.
updated_icon(old, rs, bm) ==
    LET level == worst_level(rs, bm)
    IN [icon |-> level, title |-> level, menu |-> build_menu(rs, bm)]

\* _run_scan: self._update_icon(). self.icon was set by run before the thread
\* started, so the early return is not taken.
update_icon ==
    /\ ~terminated
    /\ UNCHANGED rules
    /\ UNCHANGED locals
    /\ pc = "update_icon"
    /\ icon' = updated_icon(icon, reports, bookmark_report)
    /\ pc' = "interval"
    /\ UNCHANGED <<config, reports, bookmark_report, events, scan_reports, idx,
                   remaining, failure, ui, terminated, toasts, history>>

\* _monitor_loop: interval = self.config.get("check_interval_minutes", 5) * 60,
\* and the call of self._scan_event.wait(timeout=interval).
monitor_loop_interval ==
    /\ ~terminated
    /\ UNCHANGED rules
    /\ UNCHANGED locals
    /\ pc = "interval"
    /\ remaining' = Get(config, "check_interval_minutes", 5) * 60
    /\ pc' = "wait"
    /\ UNCHANGED <<shared, events, scan_reports, idx, failure, ui, terminated,
                   toasts, history>>

\* _monitor_loop: self._scan_event.wait(timeout=interval) returns.
monitor_loop_wait ==
    /\ ~terminated
    /\ UNCHANGED rules
    /\ UNCHANGED locals
    /\ pc = "wait"
    /\ wait_returns(scan_event, remaining)
    /\ pc' = "clear"
    /\ UNCHANGED <<shared, events, scan_reports, idx, remaining, failure, ui,
                   terminated, toasts, history>>

\* A loop that leaves the flag as it is.
clear_keeps(flag) == flag

\* threading.Event.clear() as called by _monitor_loop: the flag afterwards.
clear(flag) == FALSE

\* _monitor_loop: self._scan_event.clear().
monitor_loop_clear ==
    /\ ~terminated
    /\ UNCHANGED rules
    /\ UNCHANGED unserved
    /\ UNCHANGED locals
    /\ pc = "clear"
    /\ scan_event' = clear(scan_event)
    /\ requests' = 0
    /\ scan_requests' = 0
    /\ pc' = "test"
    /\ UNCHANGED <<shared, stop_event, scan_reports, idx, remaining, failure, ui,
                   terminated, toasts, cycle, reports_cycle, bookmark_cycle, stop_pc,
                   cycles_after_stop, pending_wake>>

\* The clock: time passes while the worker is blocked in the wait.
Tick ==
    /\ ~terminated
    /\ UNCHANGED rules
    /\ UNCHANGED locals
    /\ pc = "wait"
    /\ ~wait_returns(scan_event, remaining)
    /\ remaining' = remaining - TickSeconds
    /\ UNCHANGED <<shared, events, pc, scan_reports, idx, failure, ui, terminated,
                   toasts, history>>

(***************************************************************************)
(* The main thread: the menu callbacks run one at a time on pystray's loop.*)
(***************************************************************************)
\* A callback that scans on the main thread instead of waking the worker.
on_scan_now_inline ==
    /\ ~terminated
    /\ UNCHANGED rules
    /\ UNCHANGED unserved
    /\ UNCHANGED locals
    /\ ui = "menu"
    /\ cycle < MaxCycles
    /\ cycle' = cycle + 1
    /\ reports' = <<>>
    /\ reports_cycle' = cycle + 1
    /\ UNCHANGED <<config, bookmark_report, icon, events, worker, ui, terminated,
                   toasts, bookmark_cycle, stop_pc, cycles_after_stop, pending_wake,
                   requests, scan_requests>>

\* _on_scan_now: self._scan_event.set().
on_scan_now ==
    /\ ~terminated
    /\ UNCHANGED rules
    /\ UNCHANGED locals
    /\ ui = "menu"
    /\ scan_event' = TRUE
    /\ requests' = IF requests < MaxRequests THEN requests + 1 ELSE requests
    /\ scan_requests' = IF pc \in ScanningPcs /\ scan_requests < MaxRequests
                        THEN scan_requests + 1 ELSE scan_requests
    /\ pending_wake' = (pending_wake \/ pc = "wait")
    /\ unserved' = TRUE
    /\ UNCHANGED <<shared, stop_event, worker, ui, terminated, toasts, cycle,
                   reports_cycle, bookmark_cycle, stop_pc, cycles_after_stop>>

\* _on_quit: self._stop_event.set().
on_quit_stop ==
    /\ ~terminated
    /\ UNCHANGED rules
    /\ UNCHANGED unserved
    /\ UNCHANGED locals
    /\ ui = "menu"
    /\ stop_event' = TRUE
    /\ stop_pc' = pc
    /\ ui' = "quit_wake"
    /\ UNCHANGED <<shared, scan_event, worker, terminated, toasts, cycle,
                   reports_cycle, bookmark_cycle, cycles_after_stop, pending_wake,
                   requests, scan_requests>>

\* A quit that does not wake the worker.
quit_wake_skipped(flag) == flag

\* self._scan_event.set() as called by _on_quit: the flag afterwards.
quit_wake(flag) == TRUE

\* _on_quit: self._scan_event.set(), to wake the waiting thread.
on_quit_wake ==
    /\ ~terminated
    /\ UNCHANGED rules
    /\ UNCHANGED locals
    /\ ui = "quit_wake"
    /\ scan_event' = quit_wake(scan_event)
    /\ ui' = "quit_icon"
    /\ UNCHANGED <<shared, stop_event, worker, terminated, toasts, history>>

\* _on_quit: icon.stop(). The loop of icon.run() ends.
on_quit_icon_stop ==
    /\ ~terminated
    /\ UNCHANGED rules
    /\ UNCHANGED locals
    /\ ui = "quit_icon"
    /\ ui' = "stopped"
    /\ UNCHANGED <<shared, events, worker, terminated, toasts, history>>

\* run and main return after icon.run(): the interpreter exits. The worker is
\* a daemon thread (daemon=True) that nothing joins; it ends with the process,
\* wherever it is.
main_exit ==
    /\ ~terminated
    /\ UNCHANGED rules
    /\ UNCHANGED locals
    /\ ui = "stopped"
    /\ terminated' = TRUE
    /\ UNCHANGED <<shared, events, worker, ui, toasts, history>>

(***************************************************************************)
(* The specification.                                                      *)
(***************************************************************************)
Next ==
    \/ monitor_loop_test
    \/ run_scan_load
    \/ run_scan_evaluate
    \/ run_scan_assign
    \/ run_scan_notify
    \/ run_scan_bookmarks
    \/ run_scan_bookmark_notify
    \/ update_icon
    \/ monitor_loop_interval
    \/ monitor_loop_wait
    \/ monitor_loop_clear
    \/ Tick
    \/ on_scan_now
    \/ on_quit_stop
    \/ on_quit_wake
    \/ on_quit_icon_stop
    \/ main_exit

Spec == Init /\ [][Next]_vars

\* The steps of the thread that run() starts on _monitor_loop.
WorkerNext ==
    \/ monitor_loop_test
    \/ run_scan_load
    \/ run_scan_evaluate
    \/ run_scan_assign
    \/ run_scan_notify
    \/ run_scan_bookmarks
    \/ run_scan_bookmark_notify
    \/ update_icon
    \/ monitor_loop_interval
    \/ monitor_loop_wait
    \/ monitor_loop_clear

\* The scheduler under the fairness the platform gives: a thread that can
\* take a step takes one, and the clock of a timed wait advances. Nothing
\* makes the user click.
FairSpec == Spec /\ WF_vars(WorkerNext) /\ WF_vars(Tick)

(***************************************************************************)
(* The rule engine on its own: one call of a function of rules.py on       *)
(* arguments drawn from bounded sets.                                      *)
(***************************************************************************)
\* The nodes a generated bookmark tree is made of.
NodeChoices ==
    {UrlNode("a", "0"), UrlNode("a", "13"), UrlNode("b", "13"), NeverUsedNode("b"),
     FolderNode(<<UrlNode("a", "13")>>), FolderNode(<<>>)}

RECURSIVE SeqsUpTo(_, _)
\* The sequences over S of length at most n.
SeqsUpTo(S, n) ==
    IF n = 0 THEN {<<>>}
    ELSE LET shorter == SeqsUpTo(S, n - 1)
         IN shorter \cup {Append(q, x) : q \in shorter, x \in S}

\* Bookmark files that parse: a bookmark bar, a second root, and a root value
\* that is not a dict.
GeneratedStores ==
    {[exists |-> TRUE, parses |-> TRUE,
      roots |-> <<[name |-> "bookmark_bar", is_dict |-> TRUE, node |-> FolderNode(bar)],
                  [name |-> "other", is_dict |-> TRUE, node |-> FolderNode(other)],
                  [name |-> "sync_transaction_version", is_dict |-> FALSE,
                   node |-> FolderNode(<<>>)]>>] :
        bar \in SeqsUpTo(NodeChoices, MaxChildren), other \in SeqsUpTo(NodeChoices, 1)}

\* The thresholds of the bookmark rules; nothing validates config.yaml, so a
\* threshold may be negative.
CountThresholds == {0 - 1, 0, 1}

PercentThresholds == {0 - 1, 50, 100}

\* The arguments of one call.
RuleInputs ==
    {[kind |-> "level", score |-> n] : n \in 0..MaxScore}
    \cup {[kind |-> "folder", dir |-> d, max_files |-> mf, max_extensions |-> me,
           max_stale_files |-> ms, stale_days |-> sd] :
             d \in Dirs, mf \in 0..MaxThreshold, me \in 0..MaxThreshold,
             ms \in 0..MaxThreshold, sd \in {7, 20}}
    \cup {[kind |-> "bookmarks", store |-> st, max_unsorted |-> mu,
           max_duplicates |-> md, max_unused_percent |-> mp] :
             st \in GeneratedStores \cup BookmarkStores,
             mu \in CountThresholds, md \in CountThresholds, mp \in PercentThresholds}

RulesInit ==
    /\ SchedulerInit
    /\ config = ConfigA
    /\ input \in {Some(x) : x \in RuleInputs}
    /\ result = None

\* report.level, of a FolderReport and of a BookmarkReport with this score.
apply_level ==
    /\ result = None
    /\ input[1].kind = "level"
    /\ result' = Some([folder |-> Level(input[1].score),
                        bookmark |-> BookmarkLevel(input[1].score)])
    /\ UNCHANGED <<input, scheduler>>

\* evaluate_folder(folder_path, max_files, max_extensions, max_stale_files, stale_days)
apply_evaluate_folder ==
    /\ result = None
    /\ input[1].kind = "folder"
    /\ result' = Some(evaluate_folder("Desktop", input[1].dir, input[1].max_files,
                                       input[1].max_extensions, input[1].max_stale_files,
                                       input[1].stale_days, Now))
    /\ UNCHANGED <<input, scheduler>>

\* evaluate_bookmarks(bookmarks_path, max_unsorted, max_duplicates, max_unused_percent)
apply_evaluate_bookmarks ==
    /\ result = None
    /\ input[1].kind = "bookmarks"
    /\ result' = Some(evaluate_bookmarks(input[1].store, input[1].max_unsorted,
                                          input[1].max_duplicates,
                                          input[1].max_unused_percent))
    /\ UNCHANGED <<input, scheduler>>

RulesNext ==
    \/ apply_level
    \/ apply_evaluate_folder
    \/ apply_evaluate_bookmarks

RulesSpec == RulesInit /\ [][RulesNext]_vars

(***************************************************************************)
(* The properties.                                                         *)
(***************************************************************************)
\* C1: the report set the two threads share, self.reports together with
\* self.bookmark_report, is never partially populated: in every state both
\* fields were written by the same cycle.
ReportSetWrittenAtomically == reports_cycle = bookmark_cycle

\* C2: a failure of load_config at the start of a cycle does not end the
\* worker: the thread is never ended by the exception of the loader.
ConfigFailureSkipsCycle == pc = "raised" => failure # "config"

\* C3: a malformed bookmark store does not end the worker, and the bookmark
\* report of that cycle is omitted: after the failure the thread is alive and
\* self.bookmark_report is None.
MalformedStoreOmitsReport ==
    failure = "bookmarks" => (pc # "raised" /\ bookmark_report = None)

\* C4: a failure of the delivery of a notification is never fatal: it does
\* not leave the scan cycle, so it never ends the worker thread.
NotificationFailureNotFatal == ~(pc = "raised" /\ failure = "notification")

\* C5: once the stop flag has been set while the worker was between two
\* cycles, and once the worker has left its loop, no step of the worker is a
\* step of a scan cycle, and a worker that has left its loop stays out of it.
StopInIdleStartsNoCycle ==
    [][((stop_event /\ stop_pc \in IdlePcs) \/ pc = "done")
         => (pc' \notin ScanningPcs /\ (pc = "done" => pc' = "done"))]_vars

\* C5, witness: the stop flag was set while the worker was in the timed wait,
\* after at least one cycle, and the worker has left its loop.
StopInIdleWitness == stop_pc = "wait" /\ pc = "done" /\ cycle >= 1

\* C6: when the process terminates after a quit, the worker thread has left
\* its loop.
WorkerExitsBeforeProcess == terminated => pc = "done"

\* C7: a stop signal does not abort the cycle in progress: the process never
\* ends while the worker is inside _run_scan.
CycleRunsToCompletion == ~(terminated /\ pc \in ScanningPcs)

\* C8: after a 'scan now' issued while the worker is in the timed wait, the
\* flag is set while the worker is still in the wait, no time of the timer
\* passes before the next cycle, and unless a stop was signalled the next step
\* out of the loop test starts that cycle.
ManualWakeStartsCycleAtOnce ==
    [][pending_wake =>
         /\ (pc = "wait" => scan_event)
         /\ remaining' = remaining
         /\ (pc = "test" /\ pc' # pc /\ ~stop_event => pc' = "load")]_vars

\* C8, witness: the wait has returned on a manual wake with time left on the
\* timer.
ManualWakeWitness == pending_wake /\ pc = "clear" /\ remaining > 0 /\ ~stop_event

\* C9: 'scan now' requests are coalesced: while no stop is signalled, the flag
\* is set when the worker is in the wait exactly when a request arrived since
\* the last clear, however many did; requests made before the last clear
\* wake no later wait.
ScanNowCoalesced ==
    (pc = "wait" /\ ~stop_event) => (scan_event <=> requests > 0)

\* C9, witness: several requests were issued during one cycle, and the wait
\* that followed it returned with the whole timeout left.
ScanNowCoalescedWitness ==
    /\ pc = "clear"
    /\ scan_requests >= 2
    /\ remaining = Get(config, "check_interval_minutes", 5) * 60
    /\ ~stop_event

\* C10: after _on_quit has set both flags, the worker is never blocked in the
\* timed wait: whenever it is in the wait the wake flag is set.
StopReleasesWait ==
    (ui \in {"quit_icon", "stopped"} /\ pc = "wait") => scan_event

\* C10, witness: the stop was signalled during a cycle and the worker has
\* entered the wait afterwards, with time left on the timer.
StopReleasesWaitWitness ==
    /\ ui \in {"quit_icon", "stopped"}
    /\ pc = "wait"
    /\ stop_pc \in ScanningPcs
    /\ remaining > 0

(***************************************************************************)
(* Properties of the notifications, the publication and the configuration. *)
(***************************************************************************)
IsDirty(entry) == entry.level # "clean"

\* The reports the current cycle has produced, as the dispatcher sees them.
ProducedReports ==
    [i \in DOMAIN scan_reports |-> [kind |-> "folder", level |-> Level(scan_reports[i].score)]]
        \o (IF bookmark_cycle = cycle /\ bookmark_report # None
            THEN <<[kind |-> "bookmarks", level |-> BookmarkLevel(bookmark_report[1].score)]>>
            ELSE <<>>)

\* The calls of the dispatcher in the current cycle: those that showed a
\* toast and, last, the one that raised.
Invocations ==
    toasts \o (IF pc = "raised" /\ failure = "notification"
               THEN <<IF idx <= Len(scan_reports)
                      THEN [kind |-> "folder", level |-> Level(scan_reports[idx].score)]
                      ELSE [kind |-> "bookmarks",
                            level |-> BookmarkLevel(bookmark_report[1].score)]>>
               ELSE <<>>)

\* The worker has left the notifications of a cycle that produced reports.
NotificationsOver ==
    /\ cycle >= 1
    /\ \/ pc \in {"update_icon", "interval", "wait", "clear", "test", "done"}
       \/ pc = "raised" /\ failure \in {"notification", "bookmarks"}

\* C11: once the notifications of a cycle are over, the dispatcher has been
\* invoked exactly once for every report the cycle produced whose level is not
\* clean, in their order, and for no clean report.
DispatchedOncePerDirtyReport ==
    NotificationsOver => Invocations = SelectSeq(ProducedReports, IsDirty)

\* The worst level in a set of levels, clean for the empty set.
WorstOf(levels) ==
    IF levels = {} THEN "clean"
    ELSE CHOOSE l \in levels : \A k \in levels : LEVEL_PRIORITY[k] <= LEVEL_PRIORITY[l]

\* The levels of the reports the current cycle produced.
CycleLevels ==
    {Level(scan_reports[i].score) : i \in DOMAIN scan_reports}
        \cup (IF bookmark_cycle = cycle /\ bookmark_report # None
              THEN {BookmarkLevel(bookmark_report[1].score)} ELSE {})

\* C12: when the worker computes the interval and while it waits for the next
\* cycle, both shared fields hold what the cycle just run has produced, and
\* icon, title and menu have been refreshed from them.
PublicationCompleteBeforeWait ==
    pc \in {"interval", "wait"} =>
        /\ reports = scan_reports
        /\ reports_cycle = cycle
        /\ bookmark_cycle = cycle
        /\ icon.icon = worst_level(reports, bookmark_report)
        /\ icon.title = worst_level(reports, bookmark_report)
        /\ icon.menu = build_menu(reports, bookmark_report)

\* C12, witness: the worker waits after its second cycle or a later one, and
\* the menu shows two folders.
PublicationCompleteWitness ==
    /\ pc = "wait"
    /\ cycle >= 2
    /\ Len(icon.menu.folders) = 2
    /\ icon.icon # "clean"

\* C17: a cycle begins only by the worker's step from the loop test into
\* _run_scan, which no step of the main thread is, and only when the worker is
\* in no cycle; what a cycle writes is written only by a step of the worker
\* inside _run_scan.
OneCycleAtATime ==
    [][/\ (cycle' # cycle \/ (pc' \in ScanningPcs /\ pc \notin ScanningPcs))
            => /\ pc = "test"
               /\ pc' = "load"
               /\ cycle' = cycle + 1
               /\ ui' = ui
               /\ events' = events
       /\ (<<shared, toasts, scan_reports, locals, reports_cycle, bookmark_cycle>>'
              # <<shared, toasts, scan_reports, locals, reports_cycle, bookmark_cycle>>)
            => /\ pc \in ScanningPcs
               /\ ui' = ui
               /\ events' = events]_vars

\* C17, witness: 'scan now' was requested twice while the second cycle was
\* running.
OneCycleAtATimeWitness ==
    /\ pc \in ScanningPcs
    /\ cycle = 2
    /\ scan_requests >= 2

\* The threshold of a folder rule in a folder's configuration.
FolderThreshold(folder_cfg, rule) ==
    CASE rule = "files" -> Get(folder_cfg, "max_files", 20)
      [] rule = "extensions" -> Get(folder_cfg, "max_extensions", 8)
      [] rule = "stale" -> Get(folder_cfg, "max_stale_files", 10)

\* The threshold of a bookmark rule in the bookmarks section.
BookmarkThreshold(bm_cfg, rule) ==
    CASE rule = "unsorted" -> Get(bm_cfg, "max_unsorted", 10)
      [] rule = "duplicates" -> Get(bm_cfg, "max_duplicates", 5)
      [] rule = "unused" -> Get(bm_cfg, "max_unused_percent", 50)

\* The reports of the cycle are those of the folders of cfg, in order, and
\* every reason they and the cycle's bookmark report carry names the threshold
\* cfg gives.
ReportsFollow(cfg) ==
    /\ Len(scan_reports) <= Len(cfg["folders"])
    /\ \A i \in DOMAIN scan_reports :
          /\ scan_reports[i].path = cfg["folders"][i]["path"]
          /\ \A k \in DOMAIN scan_reports[i].reasons :
                scan_reports[i].reasons[k][3]
                    = FolderThreshold(cfg["folders"][i], scan_reports[i].reasons[k][1])
    /\ (bookmark_cycle = cycle /\ bookmark_report # None) =>
          \A k \in DOMAIN bookmark_report[1].reasons :
              bookmark_report[1].reasons[k][3]
                  = BookmarkThreshold(Get(cfg, "bookmarks", [x \in {} |-> 0]),
                                      bookmark_report[1].reasons[k][1])

\* C18: the step that loads the configuration makes the document it has read
\* the configuration of the cycle; the folders evaluated and the thresholds
\* applied in the cycle are those of that document; and the wait that follows
\* the cycle starts with check_interval_minutes * 60 seconds of that document
\* (5 minutes when it has no such key).
ConfigOfCycleGoverns ==
    [][/\ (pc = "load" /\ pc' = "evaluate") =>
            \E file \in ConfigFiles : file.loads /\ scan_config' = file.doc
       /\ (pc \in ScanningPcs \ {"load"}) =>
            /\ scan_config' = scan_config
            /\ ReportsFollow(scan_config)'
       /\ (pc = "interval" /\ pc' = "wait") =>
            /\ scan_config' = scan_config
            /\ remaining' = Get(scan_config, "check_interval_minutes", 5) * 60]_vars

\* C18, witness: the worker waits after a later cycle than the first, with
\* the whole default interval of a document without check_interval_minutes
\* ahead, and a report of that cycle carries a reason.
ConfigOfCycleWitness ==
    /\ pc = "wait"
    /\ cycle >= 2
    /\ "check_interval_minutes" \notin DOMAIN scan_config
    /\ remaining = 300
    /\ \E i \in DOMAIN scan_reports : scan_reports[i].reasons # <<>>

\* C19: after a completed cycle the icon shows the worst level of the folder
\* reports and the bookmark report of that cycle, in the order clean < caution
\* < warning < critical, and clean when the cycle produced no report.
IndicatorShowsWorstLevel ==
    pc \in {"interval", "wait"} => icon.icon = WorstOf(CycleLevels)

\* C19, witness: a completed cycle whose bookmark report is worse than every
\* folder report.
IndicatorShowsWorstLevelWitness ==
    /\ pc = "interval"
    /\ scan_reports # <<>>
    /\ bookmark_report # None
    /\ \A i \in DOMAIN scan_reports :
          LEVEL_PRIORITY[Level(scan_reports[i].score)]
              < LEVEL_PRIORITY[BookmarkLevel(bookmark_report[1].score)]
    /\ icon.icon = BookmarkLevel(bookmark_report[1].score)

\* The bookmark notifications shown in the current cycle.
BookmarkToasts == {i \in DOMAIN toasts : toasts[i].kind = "bookmarks"}

\* C20: a cycle sends at most one bookmark notification; after the bookmark
\* step of a cycle in which the check is disabled or the store does not exist,
\* self.bookmark_report is None, no bookmark notification has been sent, and
\* once the cycle has completed the menu shows no bookmark item.
NoBookmarkReportWithoutStore ==
    /\ Cardinality(BookmarkToasts) <= 1
    /\ (pc \in {"update_icon", "interval", "wait"}
          /\ store_found \in {"unchecked", "absent"}) =>
            /\ bookmark_report = None
            /\ bookmark_cycle = cycle
            /\ BookmarkToasts = {}
            /\ (pc # "update_icon" => icon.menu.bookmark = None)

\* C20, witness: the store is gone in a cycle that follows one that published
\* a bookmark report: the menu, not yet refreshed, still shows its item.
NoBookmarkReportWitness ==
    /\ pc = "update_icon"
    /\ store_found = "absent"
    /\ icon.menu.bookmark # None
    /\ bookmark_report = None

\* C21: the stop flag, once set, stays set, whatever the loop clears, and
\* _run_scan is called at most once with the stop flag already set: only the
\* call that follows a loop test made before the flag was set.
AtMostOneCycleAfterStop ==
    [][/\ stop_event => stop_event'
       /\ cycles_after_stop' <= 1
       /\ cycles_after_stop' > cycles_after_stop => stop_pc = "load"]_vars

\* C21, witness: the stop flag was set between the loop test and the call of
\* _run_scan, that cycle ran, the loop cleared the wake flag and the worker
\* left its loop.
AtMostOneCycleAfterStopWitness ==
    /\ cycles_after_stop = 1
    /\ stop_pc = "load"
    /\ pc = "done"
    /\ stop_event
    /\ ~scan_event

\* C22: no manual wake is lost: a 'scan now' issued while no stop has been
\* signalled is followed by a call of _run_scan made after it, unless a stop
\* is signalled first. (The model runs MaxCycles cycles; a request is followed
\* up while one more cycle can begin.)
ManualWakeNotLost ==
    (unserved /\ ~stop_event /\ cycle < MaxCycles) ~> (~unserved \/ stop_event)

(***************************************************************************)
(* Properties of the rule engine, under RulesSpec.                         *)
(***************************************************************************)
\* 1 for a rule predicate that is true, 0 for one that is false.
Count(predicate) == IF predicate THEN 1 ELSE 0

\* The URLs of the modelled bookmark nodes.
Urls == {"a", "b"}

RECURSIVE occurrences(_, _)
RECURSIVE occurrences_in(_, _)
\* The number of URL nodes with URL u at or under node.
occurrences(node, u) ==
    Count(Get(node, "type", "") = "url" /\ Get(node, "url", "") = u)
        + occurrences_in(Get(node, "children", <<>>), u)

occurrences_in(children, u) ==
    IF children = <<>> THEN 0
    ELSE occurrences(Head(children), u) + occurrences_in(Tail(children), u)

RECURSIVE occurrences_in_roots(_, _)
\* The number of URL nodes with URL u under all the roots that are dicts.
occurrences_in_roots(roots, u) ==
    IF roots = <<>> THEN 0
    ELSE (IF Head(roots).is_dict THEN occurrences(Head(roots).node, u) ELSE 0)
            + occurrences_in_roots(Tail(roots), u)

\* A bookmark file that is there, parses, and whose URL nodes all carry a url.
WellFormed(store) ==
    /\ store.exists
    /\ store.parses
    /\ occurrences_in_roots(store.roots, "") = 0

\* The number of URL nodes of a well-formed store.
UrlNodes(store) ==
    occurrences_in_roots(store.roots, "a") + occurrences_in_roots(store.roots, "b")

\* The number of distinct URLs that occur at least twice in a well-formed store.
DuplicatedUrls(store) ==
    Cardinality({u \in Urls : occurrences_in_roots(store.roots, u) >= 2})

\* The rules whose reason a report carries.
Triggered(report) == {report.reasons[i][1] : i \in DOMAIN report.reasons}

FolderEvaluated == input # None /\ result # None /\ input[1].kind = "folder"

BookmarksEvaluated == input # None /\ result # None /\ input[1].kind = "bookmarks"

\* The number of folder rules whose predicate was evaluated and true.
FolderRulesTrue(in, report) ==
    IF ~in.dir.exists THEN 0
    ELSE Count(report.total_files > in.max_files)
         + Count(report.extension_count > in.max_extensions)
         + Count(report.stale_file_count > in.max_stale_files)

\* The number of bookmark rules whose predicate was evaluated and true.
BookmarkRulesTrue(in, report) ==
    IF ~in.store.exists \/ report.total_bookmarks = 0 THEN 0
    ELSE Count(report.unsorted_count > in.max_unsorted)
         + Count(report.duplicate_count > in.max_duplicates)
         + Count(report.unused_count * 100 > in.max_unused_percent * report.total_bookmarks)

\* C13: the score of a folder report and of a bookmark report that an
\* evaluation returns is the number of rules whose predicate was true in that
\* evaluation, the report carries one reason per point of the score, and the
\* score lies between 0 and 3.
ScoreCountsTrueRules ==
    /\ FolderEvaluated =>
          /\ result[1].score = FolderRulesTrue(input[1], result[1])
          /\ Len(result[1].reasons) = result[1].score
          /\ result[1].score \in 0..3
    /\ BookmarksEvaluated /\ ~result[1].raised =>
          /\ result[1].report.score = BookmarkRulesTrue(input[1], result[1].report)
          /\ Len(result[1].report.reasons) = result[1].report.score
          /\ result[1].report.score \in 0..3

\* C13, witness: a bookmark evaluation in which all three rules fired on
\* thresholds that are not negative.
ScoreCountsTrueRulesWitness ==
    /\ BookmarksEvaluated
    /\ input[1].max_unsorted >= 0
    /\ input[1].max_duplicates >= 0
    /\ input[1].max_unused_percent >= 0
    /\ ~result[1].raised
    /\ result[1].report.score = 3
    /\ Triggered(result[1].report) = {"unsorted", "duplicates", "unused"}

\* The table of levels: 0 clean, 1 caution, 2 warning, 3 or more critical.
LevelTable(score) ==
    CASE score = 0 -> "clean"
      [] score = 1 -> "caution"
      [] score = 2 -> "warning"
      [] score >= 3 -> "critical"

\* C14: the level is defined for every score, is clean for 0, caution for 1,
\* warning for 2 and critical for 3 or more, hence never lower for a higher
\* score, and a FolderReport and a BookmarkReport with the same score have the
\* same level.
LevelIsStepFunctionOfScore ==
    input # None /\ result # None /\ input[1].kind = "level" =>
        /\ result[1].folder = LevelTable(input[1].score)
        /\ result[1].bookmark = LevelTable(input[1].score)
        /\ \A lower \in 0..input[1].score :
              /\ LEVEL_PRIORITY[Level(lower)] <= LEVEL_PRIORITY[result[1].folder]
              /\ LEVEL_PRIORITY[BookmarkLevel(lower)] <= LEVEL_PRIORITY[result[1].bookmark]

\* C14, witness: the level of a score above 3 has been computed.
LevelIsStepFunctionOfScoreWitness ==
    /\ input # None /\ result # None /\ input[1].kind = "level"
    /\ input[1].score > 3
    /\ result[1].bookmark = "critical"

\* C15 as stated: duplicate_count is the number of distinct URLs that occur
\* at least twice over all the roots, and the duplicate rule triggers exactly
\* when that number is greater than max_duplicates.
DuplicateRuleIffAboveThreshold ==
    BookmarksEvaluated /\ WellFormed(input[1].store) =>
        /\ ~result[1].raised
        /\ result[1].report.duplicate_count = DuplicatedUrls(input[1].store)
        /\ "duplicates" \in Triggered(result[1].report)
              <=> DuplicatedUrls(input[1].store) > input[1].max_duplicates

\* C15, amended: duplicate_count is the number of distinct URLs that occur at
\* least twice over all the roots, and the duplicate rule triggers exactly
\* when the tree holds at least one URL node and that number is greater than
\* max_duplicates.
DuplicateRuleOnNonEmptyTree ==
    BookmarksEvaluated /\ WellFormed(input[1].store) =>
        /\ ~result[1].raised
        /\ result[1].report.duplicate_count = DuplicatedUrls(input[1].store)
        /\ "duplicates" \in Triggered(result[1].report)
              <=> /\ UrlNodes(input[1].store) > 0
                  /\ DuplicatedUrls(input[1].store) > input[1].max_duplicates

\* C15, witness: a URL occurs once under the bookmark bar and once under the
\* other root, nothing else is duplicated, and the rule fired.
DuplicateRuleWitness ==
    /\ BookmarksEvaluated
    /\ WellFormed(input[1].store)
    /\ Len(input[1].store.roots) >= 2
    /\ input[1].max_duplicates = 0
    /\ \E u \in Urls :
          /\ occurrences(input[1].store.roots[1].node, u) = 1
          /\ occurrences(input[1].store.roots[2].node, u) = 1
    /\ result[1].report.duplicate_count = 1
    /\ "duplicates" \in Triggered(result[1].report)

\* C16: an evaluation of a store without any URL node returns the zero-valued
\* report, with score 0 and level clean, whatever the thresholds are, and does
\* not reach the division by the number of bookmarks.
EmptyStoreIsClean ==
    BookmarksEvaluated /\ WellFormed(input[1].store) /\ UrlNodes(input[1].store) = 0 =>
        /\ ~result[1].raised
        /\ result[1].report = BookmarkReport
        /\ result[1].report.score = 0
        /\ BookmarkLevel(result[1].report.score) = "clean"

\* C16, witness: a store with an empty folder and no URL node was evaluated
\* with thresholds below zero.
EmptyStoreIsCleanWitness ==
    /\ BookmarksEvaluated
    /\ WellFormed(input[1].store)
    /\ UrlNodes(input[1].store) = 0
    /\ Len(input[1].store.roots[1].node.children) > 0
    /\ input[1].max_unsorted < 0
    /\ input[1].max_duplicates < 0
    /\ input[1].max_unused_percent < 0
    /\ result[1].report.total_bookmarks = 0

====
